---------------------------- MODULE Spec2Model ----------------------------
(***************************************************************************)
(* Process supervision in sec-camera-dashboard: RTSPRecorder               *)
(* (backend/services/rtsp_recorder.py) and HLSStreamer                     *)
(* (backend/services/hls_streamer.py).                                     *)
(*                                                                         *)
(* One supervisor instance is modelled at a time; svc says which class it  *)
(* is.  The instance runs on one asyncio event loop, so every action is    *)
(* the code a coroutine executes between two suspension points (await).    *)
(* Time is counted in seconds.  asyncio.sleep(n) lets n seconds pass; a    *)
(* value read from the clock afterwards is the whole number of seconds     *)
(* slept plus a small non-negative overhead (Overhead).                    *)
(***************************************************************************)
EXTENDS Integers, Sequences, FiniteSets, TLC

----------------------------------------------------------------------------
(* Program constants *)

RetryFloor == 5
RetryCap == 60
PollInterval == 5
HlsPollInterval == 1
StallTimeout == 30
ResetWindow == 10
GraceWindow == 5
SegmentDuration == 600

(* PersonDetector: sampling intervals, in tenths of a second *)
FAST_INTERVAL == 2
NORMAL_INTERVAL == 5
IDLE_INTERVAL == 10

(* Bounds of the model *)

MaxTasks == 2
MaxOrphans == 1
MaxWaits == 6
MaxDeficit == 2
MaxCount == 4

Services == {"recorder", "hls_streamer"}
Callers == {1, 2}
Tasks == 1..MaxTasks
Overhead == {0, 1}
NoCode == 99
SigTerm == -15
AgeCap == StallTimeout + PollInterval + GraceWindow
QuietCap == StallTimeout + ResetWindow

Min(a, b) == IF a < b THEN a ELSE b

VARIABLES
    svc,              \* which supervisor class the instance is
    hung,             \* ws_manager has a connection whose send_text does not complete
    running,          \* self._running
    process,          \* self._process: "None" or "Popen"
    procAlive,        \* the process behind self._process is alive
    exitCode,         \* exit status of that process once it is dead
    returncode,       \* self._process.returncode (NoCode: None)
    orphans,          \* live processes the supervisor launched and no longer references
    task,             \* self._task: 0 (None) or a task id
    tpc,              \* where each monitor task is suspended
    cancelReq,        \* tasks with a pending cancel(), in the order of the calls
    retry_delay,      \* the loop's local retry_delay, per task
    sleeping,         \* the delay of the asyncio.sleep(retry_delay) in progress, per task
    last_output_age,  \* seconds since self._last_output_time
    nonEmpty,         \* the date directory holds .mp4 data (current_total_size > 0)
    grew,             \* current_total_size > last_total_size
    unseen,           \* the date directory holds a file not in known_files
    rolled,           \* the calendar date has changed since the output pattern was built
    deficit,          \* last_total_size - current_total_size where that is positive
    counted,          \* last_total_size > 0
    cpc,              \* where each caller of start()/stop() is
    awaited,          \* the task a caller's stop() awaits
    published,        \* the latest status event sent through ws_manager
    hist              \* history of calls and sessions (not program state)

(* The PersonDetector instance and what it works with.                     *)
VARIABLES
    det,              \* the fields of the PersonDetector object
    dloop,            \* the _detection_loop tasks: position, locals, pending cancels
    dcall,            \* where each caller of the detector's start()/stop() is, and
                      \* whether a stop() has met a start() that was loading
    settings,         \* runtime_settings
    file,             \* what config/settings.json holds
    seg,              \* one call of _compute_motion_score: its frame and what it returns
    out               \* what the detector has sent out, and the history of its frames

supVars == <<svc, hung, running, process, procAlive, exitCode, returncode, orphans,
             task, tpc, cancelReq, retry_delay, sleeping, last_output_age, nonEmpty,
             grew, unseen, rolled, deficit, counted, cpc, awaited, published, hist>>

detVars == <<det, dloop, dcall, settings, file, seg, out>>

vars == <<supVars, detVars>>

(* What start() and stop() read and write.                                 *)
progVars == <<running, process, procAlive, exitCode, returncode, orphans, task,
              tpc, cancelReq, retry_delay, sleeping, last_output_age, nonEmpty,
              grew, unseen, rolled, deficit, counted, published>>

----------------------------------------------------------------------------
(* ws_manager.send_status_update(service, status, message): the message of *)
(* a 'reconnecting' event carries the delay; other events carry 0.         *)
(* stopped: how many 'stopped' events end the sequence of events published *)
(* so far (0 when the latest event is another one), counted up to 2.       *)

StatusEvent(status, delay) ==
    [status |-> status, delay |-> delay,
     stopped |-> IF status = "stopped" THEN Min(published.stopped + 1, 2) ELSE 0]

TypeOK ==
    /\ svc \in Services
    /\ hung \in BOOLEAN
    /\ running \in BOOLEAN
    /\ process \in {"None", "Popen"}
    /\ procAlive \in BOOLEAN
    /\ exitCode \in {0, 1, SigTerm}
    /\ returncode \in {NoCode, 0, 1, SigTerm}
    /\ orphans \in 0..MaxOrphans
    /\ task \in 0..MaxTasks
    /\ tpc \in [Tasks -> {"none", "loop", "connected_sent", "poll_sleep",
                          "error_sent", "reconnect_sent", "backoff", "done"}]
    /\ cancelReq \in Seq(Tasks) /\ Len(cancelReq) <= MaxTasks
    /\ retry_delay \in [Tasks -> RetryFloor..RetryCap]
    /\ sleeping \in [Tasks -> 0..(2 * RetryCap)]
    /\ last_output_age \in 0..AgeCap
    /\ nonEmpty \in BOOLEAN
    /\ grew \in BOOLEAN
    /\ unseen \in BOOLEAN
    /\ rolled \in BOOLEAN
    /\ deficit \in 0..MaxDeficit
    /\ counted \in BOOLEAN
    /\ cpc \in [Callers -> {"idle", "start_pub", "stop_await", "stop_pub"}]
    /\ awaited \in [Callers -> 0..MaxTasks]

(* History kept beside the program state, to state the claims.             *)
(* Of the current run of the monitor loop (kept when timing is TRUE):      *)
(*   waits        backoff waits that have completed                        *)
(*   allFailed    every session so far ended by the process exiting with   *)
(*                code 1                                                   *)
(*   output       the monitor observed output in the current session       *)
(*   alive        seconds the process of the current session has lived     *)
(*   quiet        seconds since it last produced output                    *)
(*   ended        how the latest session ended                             *)
(*   errored      an 'error' event was published when it ended             *)
(* Of the calls (kept when timing is FALSE):                               *)
(*   succ         stop() calls made one after the other, none overlapping  *)
(*                another call and no start() between them                 *)
(*   quiesced     a stop() has returned and start() was not called since   *)
(*                that stop() was called                                   *)
(*   dirty        callers whose stop() in progress saw a start() call      *)
(*   startsSince, tasksSince, runningSince                                 *)
(*                start() calls, tasks created and 'running' events since  *)
(*                the latest stop() call, counted up to 2                  *)
InitRun == [waits |-> 0, allFailed |-> TRUE, output |-> FALSE, alive |-> 0,
            quiet |-> 0, ended |-> "none", errored |-> FALSE]

InitHist(timing) ==
    [timing |-> timing, run |-> InitRun, succ |-> 0, quiesced |-> FALSE,
     dirty |-> {}, startsSince |-> 0, tasksSince |-> 0, runningSince |-> 0]

(* RTSPRecorder.__init__ / HLSStreamer.__init__ *)
InitProgram ==
    /\ svc \in Services
    /\ hung = FALSE
    /\ running = FALSE
    /\ process = "None"
    /\ procAlive = FALSE
    /\ exitCode = 0
    /\ returncode = NoCode
    /\ orphans = 0
    /\ task = 0
    /\ tpc = [t \in Tasks |-> "none"]
    /\ cancelReq = <<>>
    /\ retry_delay = [t \in Tasks |-> RetryFloor]
    /\ sleeping = [t \in Tasks |-> 0]
    /\ last_output_age = 0
    /\ nonEmpty = FALSE
    /\ grew = FALSE
    /\ unseen = FALSE
    /\ rolled = FALSE
    /\ deficit = 0
    /\ counted = FALSE
    /\ cpc = [c \in Callers |-> "idle"]
    /\ awaited = [c \in Callers |-> 0]
    /\ published = [status |-> "none", delay |-> 0, stopped |-> 0]

(* PersonDetector.__init__, with consecutive_frames_required = n, and the  *)
(* settings st that RuntimeSettings._load took from the settings file.     *)
(* A frame of the camera as _compute_motion_score sees it: a global change *)
(* (score 0) or a motion score.  A result of the classifier: the highest   *)
(* confidence per kind of class it reports, 0 where it reports none.       *)
NoTime == -1

(* The background model self._bg_subtractor, with                          *)
(*   owner    the detection loop whose connection, still open, created it  *)
(*            at its connect; NoModel before start(), for the model that   *)
(*            start() creates, and once that connection is released        *)
(*   tainted  it has been applied to a frame of a connection other than    *)
(*            the one it was created for                                   *)
NoModel == -1
NewModel(owner) == [owner |-> owner, tainted |-> FALSE]
NoDetections == [person |-> 0, animal |-> 0, vehicle |-> 0]
NoFrame == [global |-> FALSE, score |-> 0, dets |-> NoDetections]

DefaultSettings ==
    [telegram_enabled |-> TRUE, detection_threshold |-> 50,
     notification_cooldown_seconds |-> 60]

(* What the detector sends out, and the history of its frames (kept when   *)
(* frames is TRUE):                                                        *)
(*   status      the latest status event                                   *)
(*   streak      qualifying frames processed in a row, the latest included *)
(* and of the latest frame read:                                           *)
(*   global      the segmenter flagged the frame as a global change        *)
(*   score       its motion score                                          *)
(*   fed         what it fed to _update_sampling_rate                      *)
(*   classified  the classifier was invoked for it                         *)
(*   found       the classifier yielded detections for it                  *)
(*   confirmed   it was confirmed as a detection, with or without objects  *)
(*   person, animal                                                        *)
(*               the detection has a person, a monitored animal            *)
(*   confidence, importance, send_gif                                      *)
(*               what _handle_detection computed for it (importance 0:     *)
(*               none computed)                                            *)
(*   important   the importance of the detection is 3 or more              *)
(*   enabled     notifications were enabled when its handling ended        *)
(*   due         none was dispatched before it, or the cooldown had        *)
(*               elapsed                                                   *)
(*   stored, broadcast, notified                                           *)
(*               an event was recorded in the event store, sent to the     *)
(*               live clients, a notification was dispatched               *)
NoHistory ==
    [global |-> FALSE, score |-> 0, fed |-> "none", classified |-> FALSE,
     found |-> FALSE, confirmed |-> FALSE,
     person |-> FALSE, animal |-> FALSE, confidence |-> 0, importance |-> 0,
     send_gif |-> FALSE, important |-> FALSE, enabled |-> FALSE, due |-> FALSE, stored |-> FALSE,
     broadcast |-> FALSE, notified |-> FALSE]

(* One call of _compute_motion_score.  Its frame is what cv2 makes of it:  *)
(* whether a background model exists, the size of the foreground mask, and *)
(* the external contours, as groups of n contours of one contourArea and   *)
(* one boundingRect (w, h).  With what it returns are kept the locals the  *)
(* result was computed from.  The score is kept in thousandths.            *)
ScoreUnit == 1000
NoRect == <<0, 0>>
NoContours ==
    [valid_contours |-> 0, total_area |-> 0, max_area |-> 0, max_rect |-> NoRect]
NoCall ==
    [pc |-> "none", model |-> FALSE, width |-> 0, height |-> 0, contours |-> <<>>,
     counted |-> NoContours, score |-> 0, global |-> FALSE]

InitOut(frames) ==
    [frames |-> frames, status |-> "none", streak |-> 0, latest |-> NoHistory]

InitDetector(n, st, frames) ==
    /\ det = [running |-> FALSE, task |-> 0, motion_frame_count |-> 0,
              last_detection_age |-> NoTime, last_motion_age |-> NoTime,
              current_interval |-> NORMAL_INTERVAL, net |-> "unloaded",
              bg |-> [owner |-> NoModel, tainted |-> FALSE],
              consecutive_frames_required |-> n]
    /\ dloop = [pc |-> [t \in Tasks |-> "none"],
                retry_delay |-> [t \in Tasks |-> RetryFloor],
                cap |-> [t \in Tasks |-> FALSE],
                frame |-> [t \in Tasks |-> NoFrame],
                stale |-> [t \in Tasks |-> FALSE],
                cancelReq |-> <<>>]
    /\ dcall = [pc |-> [c \in Callers |-> "idle"], awaited |-> [c \in Callers |-> 0],
                raced |-> FALSE]
    /\ settings = st
    /\ file = st
    /\ seg = NoCall
    /\ out = InitOut(frames)

Init == InitProgram /\ hist = InitHist(FALSE) /\ InitDetector(1, DefaultSettings, FALSE)

InitTiming == InitProgram /\ hist = InitHist(TRUE) /\ InitDetector(1, DefaultSettings, FALSE)

----------------------------------------------------------------------------
(* The monitor loop: _recording_loop / _streaming_loop.                    *)
(* A frame holds what one step of the loop may change; the operators below *)
(* transform it as the code between two awaits does.                       *)

(* _last_output_time is read only between the launch and the reset of the  *)
(* backoff; outside a session it holds no value that is read again and is  *)
(* kept at 0.                                                              *)
InSession == {"connected_sent", "poll_sleep", "error_sent"}

Frame(t) ==
    [pc |-> tpc[t], rd |-> retry_delay[t], sleep |-> sleeping[t],
     age |-> last_output_age, process |-> process, procAlive |-> procAlive,
     exitCode |-> exitCode, returncode |-> returncode, orphans |-> orphans,
     grew |-> grew, unseen |-> unseen, rolled |-> rolled, deficit |-> deficit,
     counted |-> counted,
     published |-> published, run |-> hist.run]

Commit(t, S) ==
    /\ tpc' = [tpc EXCEPT ![t] = S.pc]
    /\ retry_delay' = [retry_delay EXCEPT ![t] = IF S.pc = "done" THEN RetryFloor ELSE S.rd]
    /\ sleeping' = [sleeping EXCEPT ![t] = S.sleep]
    /\ last_output_age' = IF S.pc \in InSession THEN S.age ELSE 0
    /\ process' = S.process
    /\ procAlive' = S.procAlive
    /\ exitCode' = S.exitCode
    /\ returncode' = S.returncode
    /\ orphans' = S.orphans
    /\ grew' = S.grew
    /\ unseen' = S.unseen
    /\ rolled' = S.rolled
    /\ deficit' = IF S.pc = "poll_sleep" THEN S.deficit ELSE 0
    /\ counted' = (S.pc = "poll_sleep" /\ S.counted)
    /\ published' = S.published
    /\ hist' = IF hist.timing THEN [hist EXCEPT !.run = S.run] ELSE hist
    /\ UNCHANGED <<detVars, svc, hung, running, task, cancelReq, nonEmpty, cpc, awaited>>

Publish(S, status, delay) == [S EXCEPT !.published = StatusEvent(status, delay)]

(* A backoff that grows by the floor instead of doubling. *)
NextDelayLinear(rd) == Min(rd + RetryFloor, RetryCap)

(* retry_delay = min(retry_delay * 2, 60) *)
NextDelay(rd) == Min(rd * 2, RetryCap)

(* the delay put into the 'reconnecting' message *)
AnnouncedDelay(rd) == rd

(* the delay handed to asyncio.sleep *)
SleepDelay(rd) == rd

(* if self._running: publish 'reconnecting' (then sleep); else the while   *)
(* condition ends the loop                                                 *)
Reconnect(S) ==
    IF running
    THEN Publish([S EXCEPT !.pc = "reconnect_sent"],
                 "reconnecting", AnnouncedDelay(S.rd))
    ELSE [S EXCEPT !.pc = "done"]

(* A session of the run has ended: by the process exiting ("exit"), by     *)
(* stall handling ("stall") or by an exception ("error").                  *)
EndSession(S, kind) ==
    [S EXCEPT !.run.ended = kind,
              !.run.allFailed = @ /\ kind = "exit" /\ S.returncode = 1]

(* The try block up to the first await: build the command, Popen, record   *)
(* _last_output_time, publish 'connected'.  ok = FALSE: building or Popen  *)
(* raises and the except clause logs it.                                   *)
Launch(S, ok) ==
    IF ~ok
    THEN Reconnect(EndSession(S, "error"))
    ELSE Publish([S EXCEPT !.pc = "connected_sent",
                           !.orphans = IF S.procAlive THEN @ + 1 ELSE @,
                           !.process = "Popen",
                           !.procAlive = TRUE,
                           !.returncode = NoCode,
                           !.rolled = FALSE,
                           !.age = 0],
                 "connected", 0)

(* while self._running: *)
LoopHead(S, ok) == IF running THEN Launch(S, ok) ELSE [S EXCEPT !.pc = "done"]

(* Popen.poll() *)
PollProc(S) ==
    IF S.returncode = NoCode /\ ~S.procAlive
    THEN [S EXCEPT !.returncode = S.exitCode]
    ELSE S

(* The reset of the backoff, rtsp_recorder.py line 180; e: clock overhead. *)
(* The streamer has no such statement.                                     *)
ResetBackoff(S, e) ==
    IF svc = "recorder" /\ S.age + e < ResetWindow
    THEN [S EXCEPT !.rd = RetryFloor]
    ELSE S

(* After the 'error' event, or when there is none: the reset, then the     *)
(* reconnect block.                                                        *)
AfterError(S, e) == Reconnect(ResetBackoff(S, e))

(* Below the monitor loop: log the exit reason.  The recorder publishes    *)
(* 'error' for a non-zero return code; the streamer only logs.             *)
AfterLoop(S, e, kind) ==
    LET S1 == EndSession(S, kind)
    IN IF svc = "recorder" /\ S1.returncode # NoCode /\ S1.returncode # 0
       THEN Publish([S1 EXCEPT !.pc = "error_sent", !.run.errored = TRUE],
                    "error", 0)
       ELSE AfterError(S1, e)

(* while self._running and self._process.poll() is None; secs: the seconds *)
(* slept since the previous evaluation                                     *)
MonitorCheck(S, e, secs) ==
    IF ~running
    THEN AfterLoop(S, e, "exit")
    ELSE LET S1 == PollProc(S)
         IN IF S1.returncode = NoCode
            THEN [S1 EXCEPT !.pc = "poll_sleep",
                            !.run.alive = Min(@ + secs, ResetWindow),
                            !.run.quiet = IF svc = "hls_streamer"
                                          THEN Min(@ + secs, QuietCap) ELSE @]
            ELSE AfterLoop(S1, e, "exit")

(* terminate(); wait(timeout=5); on TimeoutExpired kill().  graceful: the  *)
(* process exits within the grace window.                                  *)
Terminate(S, graceful) ==
    IF ~S.procAlive
    THEN PollProc(S)
    ELSE IF graceful
         THEN [S EXCEPT !.procAlive = FALSE, !.exitCode = SigTerm,
                        !.returncode = SigTerm]
         ELSE [S EXCEPT !.procAlive = FALSE, !.exitCode = SigTerm,
                        !.age = Min(@ + GraceWindow, AgeCap)]

(* A stall test against the segment duration instead of stall_timeout. *)
StalledBySegment(age, e) == age + e > SegmentDuration

(* stall_duration > self.stall_timeout *)
Stalled(age, e) == age + e > StallTimeout

(* One pass of the recorder's monitor loop after asyncio.sleep(5).         *)
(* fsErr: a filesystem call (mkdir, glob, stat of a new file) raises.      *)
(* The loop looks at the directory of the current date; the process writes *)
(* to the directory of the date of its launch (_get_output_pattern), so    *)
(* after a change of date the loop finds a directory without files.        *)
RecPoll(S, fsErr, e, graceful) ==
    LET S1 == [S EXCEPT !.age = Min(@ + PollInterval, AgeCap),
                        !.run.quiet = Min(@ + PollInterval, QuietCap)]
        S2 == IF S1.rolled
              THEN S1
              ELSE [S1 EXCEPT !.age = IF S1.unseen THEN 0 ELSE @, !.unseen = FALSE,
                              !.run.output = @ \/ S1.unseen \/ S1.grew]
    IN IF fsErr
       THEN Reconnect(EndSession(S1, "error"))
       ELSE IF S2.grew /\ ~S2.rolled
            THEN MonitorCheck([S2 EXCEPT !.age = 0, !.grew = FALSE, !.counted = TRUE],
                              e, PollInterval)
            ELSE IF Stalled(S2.age, e)
                 THEN AfterLoop(Terminate(S2, graceful), e, "stall")
                 ELSE MonitorCheck(S2, e, PollInterval)

(* One pass of the streamer's monitor loop after asyncio.sleep(1).         *)
HlsPoll(S, e) == MonitorCheck(S, e, HlsPollInterval)

(* await asyncio.sleep(retry_delay) *)
BeginBackoff(S) == [S EXCEPT !.pc = "backoff", !.sleep = SleepDelay(S.rd)]

(* The wait is over: retry_delay doubles and the loop starts over.         *)
AfterBackoff(S, ok) ==
    LoopHead([S EXCEPT !.run.waits = Min(@ + 1, MaxWaits),
                       !.run.output = FALSE, !.run.alive = 0, !.run.quiet = 0,
                       !.run.ended = "none", !.run.errored = FALSE,
                       !.sleep = 0,
                       !.rd = NextDelay(S.rd)], ok)

(* The bound on orphans: a launch that would leave one more is not taken.  *)
CanLaunch == ~procAlive \/ orphans < MaxOrphans

(* cancel() schedules the task's wake-up with CancelledError on the event  *)
(* loop's ready queue, which is served in order: tasks end in the order of *)
(* their cancel() calls, and before any task created later runs.           *)
Cancelling == {cancelReq[i] : i \in 1..Len(cancelReq)}

(* A task that runs on while a cancel() is pending. *)
AlwaysRunnable(t) == TRUE

Runnable(t) == cancelReq = <<>>

(* await ws_manager.send_status_update(...) returns: broadcast awaits      *)
(* send_text of every connection in turn, holding the manager's lock.      *)
Delivered == ~hung

(* The task starts running: the first pass of the loop.                    *)
TaskBegin(t) ==
    /\ tpc[t] = "loop" /\ Runnable(t) /\ CanLaunch
    /\ \E ok \in BOOLEAN : Commit(t, LoopHead(Frame(t), ok))

(* 'connected' has been sent: known_files and last_total_size are reset    *)
(* (every file of the directory is new, every byte is growth) and the      *)
(* monitor loop is entered.                                                *)
TaskConnected(t) ==
    /\ tpc[t] = "connected_sent" /\ Runnable(t) /\ Delivered
    /\ \E e \in Overhead :
          Commit(t, MonitorCheck([Frame(t) EXCEPT !.grew = nonEmpty,
                                                  !.unseen = @ \/ nonEmpty,
                                                  !.deficit = 0,
                                                  !.counted = FALSE], e, 0))

TaskPoll(t) ==
    /\ tpc[t] = "poll_sleep" /\ Runnable(t)
    /\ IF svc = "recorder"
       THEN \E fsErr \in BOOLEAN, e \in Overhead, graceful \in BOOLEAN :
               Commit(t, RecPoll(Frame(t), fsErr, e, graceful))
       ELSE \E e \in Overhead : Commit(t, HlsPoll(Frame(t), e))

TaskErrorSent(t) ==
    /\ tpc[t] = "error_sent" /\ Runnable(t) /\ Delivered
    /\ \E e \in Overhead : Commit(t, AfterError(Frame(t), e))

(* 'reconnecting' has been sent *)
TaskReconnectSent(t) ==
    /\ tpc[t] = "reconnect_sent" /\ Runnable(t) /\ Delivered
    /\ Commit(t, BeginBackoff(Frame(t)))

TaskBackoff(t) ==
    /\ tpc[t] = "backoff" /\ Runnable(t) /\ CanLaunch
    /\ \E ok \in BOOLEAN : Commit(t, AfterBackoff(Frame(t), ok))

(* A cancelled task gets CancelledError at its await and ends: the except  *)
(* clause of the loop catches Exception only.                              *)
TaskCancelled(t) ==
    /\ cancelReq # <<>> /\ t = Head(cancelReq)
    /\ tpc' = [tpc EXCEPT ![t] = "done"]
    /\ cancelReq' = Tail(cancelReq)
    /\ retry_delay' = [retry_delay EXCEPT ![t] = RetryFloor]
    /\ sleeping' = [sleeping EXCEPT ![t] = 0]
    /\ UNCHANGED <<detVars, svc, hung, running, process, procAlive, exitCode, returncode, orphans,
                   task, last_output_age, nonEmpty, grew, unseen, rolled, deficit, counted, cpc, awaited,
                   published, hist>>

----------------------------------------------------------------------------
(* start() and stop(), called by coroutines of the application (main.py    *)
(* lifespan, routers/stream.py restart_streams and switch_stream).         *)

(* start() without its check of _running. *)
NeverRunning == FALSE

(* if self._running: return *)
AlreadyRunning == running

(* A task id for create_task: one whose task has ended and that no stop()  *)
(* still awaits.                                                           *)
FreeTasks ==
    {t \in Tasks : /\ tpc[t] \in {"none", "done"}
                   /\ \A c \in Callers : cpc[c] = "stop_await" => awaited[c] # t}

NewTask == CHOOSE t \in FreeTasks : \A u \in FreeTasks : t <= u

InStop == {c \in Callers : cpc[c] \in {"stop_await", "stop_pub"}}

Count(n) == Min(n + 1, 2)

(* start(): the check, _running = True, create_task, and the 'running'     *)
(* event handed to ws_manager; the caller then awaits the broadcast.       *)
(* (The streamer first removes old playlist and segment files.)            *)
StartCall(c) ==
    /\ cpc[c] = "idle"
    /\ IF AlreadyRunning
       THEN /\ hist' = IF hist.timing THEN hist
                       ELSE [hist EXCEPT !.succ = 0, !.quiesced = FALSE,
                                         !.dirty = InStop,
                                         !.startsSince = Count(@)]
            /\ UNCHANGED <<running, task, tpc, cpc, published>>
       ELSE /\ FreeTasks # {}
            /\ running' = TRUE
            /\ task' = NewTask
            /\ tpc' = [tpc EXCEPT ![NewTask] = "loop"]
            /\ cpc' = [cpc EXCEPT ![c] = "start_pub"]
            /\ published' = StatusEvent("running", 0)
            /\ hist' = IF hist.timing THEN [hist EXCEPT !.run = InitRun]
                       ELSE [hist EXCEPT !.succ = 0, !.quiesced = FALSE,
                                         !.dirty = InStop,
                                         !.startsSince = Count(@),
                                         !.tasksSince = Count(@),
                                         !.runningSince = Count(@)]
    /\ UNCHANGED <<detVars, svc, hung, process, procAlive, exitCode, returncode, orphans, cancelReq,
                   retry_delay, sleeping, last_output_age, nonEmpty, grew, unseen, rolled, deficit, counted,
                   awaited>>

StartReturn(c) ==
    /\ cpc[c] = "start_pub" /\ Delivered
    /\ cpc' = [cpc EXCEPT ![c] = "idle"]
    /\ UNCHANGED <<detVars, svc, hung, running, process, procAlive, exitCode, returncode, orphans,
                   task, tpc, cancelReq, retry_delay, sleeping, last_output_age,
                   nonEmpty, grew, unseen, rolled, deficit, counted, awaited, published, hist>>

(* stop() up to "await self._task": _running = False; the process, if any, *)
(* is terminated (killed after the grace window) and forgotten; the task,  *)
(* if any, is cancelled.  Awaiting a task that is already done does not    *)
(* suspend, and stop() runs on to its 'stopped' event.                     *)
StopCall(c) ==
    /\ cpc[c] = "idle"
    /\ running' = FALSE
    /\ process' = "None"
    /\ procAlive' = FALSE
    /\ exitCode' = 0
    /\ returncode' = NoCode
    /\ last_output_age' = 0
    /\ LET alone == \A d \in Callers : cpc[d] = "idle"
           h == IF hist.timing THEN hist
                ELSE [hist EXCEPT !.succ = IF alone THEN Count(@) ELSE 0,
                                  !.dirty = @ \ {c},
                                  !.startsSince = 0, !.tasksSince = 0,
                                  !.runningSince = 0]
       IN /\ hist' = h
          /\ IF task # 0 /\ tpc[task] # "done"
             THEN /\ cancelReq' = IF task \in Cancelling THEN cancelReq
                                   ELSE Append(cancelReq, task)
                  /\ cpc' = [cpc EXCEPT ![c] = "stop_await"]
                  /\ awaited' = [awaited EXCEPT ![c] = task]
                  /\ UNCHANGED published
             ELSE /\ cpc' = [cpc EXCEPT ![c] = "stop_pub"]
                  /\ published' = StatusEvent("stopped", 0)
                  /\ UNCHANGED <<cancelReq, awaited>>
    /\ UNCHANGED <<detVars, svc, hung, orphans, task, tpc, retry_delay, sleeping, nonEmpty, grew,
                   unseen, rolled, deficit, counted>>

(* The awaited task has ended: stop() publishes 'stopped'.                 *)
StopResume(c) ==
    /\ cpc[c] = "stop_await" /\ tpc[awaited[c]] = "done"
    /\ cpc' = [cpc EXCEPT ![c] = "stop_pub"]
    /\ awaited' = [awaited EXCEPT ![c] = 0]
    /\ published' = StatusEvent("stopped", 0)
    /\ UNCHANGED <<detVars, svc, hung, running, process, procAlive, exitCode, returncode, orphans,
                   task, tpc, cancelReq, retry_delay, sleeping, last_output_age,
                   nonEmpty, grew, unseen, rolled, deficit, counted, hist>>

StopReturn(c) ==
    /\ cpc[c] = "stop_pub" /\ Delivered
    /\ cpc' = [cpc EXCEPT ![c] = "idle"]
    /\ hist' = IF hist.timing THEN hist
               ELSE [hist EXCEPT !.quiesced = @ \/ c \notin hist.dirty,
                                 !.dirty = @ \ {c}]
    /\ UNCHANGED <<detVars, svc, hung, running, process, procAlive, exitCode, returncode, orphans,
                   task, tpc, cancelReq, retry_delay, sleeping, last_output_age,
                   nonEmpty, grew, unseen, rolled, deficit, counted, awaited, published>>

----------------------------------------------------------------------------
(* The environment: the ffmpeg processes and the recordings directory.     *)

(* The process behind self._process exits by itself. *)
ProcExit ==
    /\ process = "Popen" /\ procAlive
    /\ procAlive' = FALSE
    /\ \E code \in {0, 1} : exitCode' = code
    /\ UNCHANGED <<detVars, svc, hung, running, process, returncode, orphans, task, tpc, cancelReq,
                   retry_delay, sleeping, last_output_age, nonEmpty, grew, unseen, rolled, deficit, counted,
                   cpc, awaited, published, hist>>

(* A process the supervisor no longer references exits by itself. *)
OrphanExit ==
    /\ orphans > 0
    /\ orphans' = orphans - 1
    /\ UNCHANGED <<detVars, svc, hung, running, process, procAlive, exitCode, returncode, task, tpc,
                   cancelReq, retry_delay, sleeping, last_output_age, nonEmpty, grew,
                   unseen, rolled, deficit, counted, cpc, awaited, published, hist>>

(* A live recorder process writes to a segment file (new: one it has just  *)
(* opened); current: the writer is the process behind self._process.  One  *)
(* write is one unit of size.  After a change of date the process behind   *)
(* self._process writes where the loop does not look.                      *)
ProcWrite ==
    /\ svc = "recorder"
    /\ \E current \in BOOLEAN :
          /\ IF current THEN procAlive ELSE orphans > 0
          /\ hist' = IF hist.timing /\ current
                     THEN [hist EXCEPT !.run.quiet = 0] ELSE hist
          /\ IF current /\ rolled
             THEN UNCHANGED <<nonEmpty, grew, unseen, deficit>>
             ELSE /\ nonEmpty' = TRUE
                  /\ grew' = (deficit = 0)
                  /\ deficit' = IF deficit > 0 THEN deficit - 1 ELSE 0
                  /\ \E new \in BOOLEAN : unseen' = (unseen \/ new)
    /\ UNCHANGED <<detVars, svc, hung, running, process, procAlive, exitCode, returncode, orphans,
                   task, tpc, cancelReq, retry_delay, sleeping, last_output_age,
                   rolled, counted, cpc, awaited, published>>

(* The calendar date changes while a process launched on the previous date *)
(* is being monitored: the directory of the new date has no files yet.     *)
DateRollover ==
    /\ svc = "recorder"
    /\ ~rolled
    /\ \E t \in Tasks : tpc[t] \in {"connected_sent", "poll_sleep"}
    /\ rolled' = TRUE
    /\ nonEmpty' = FALSE
    /\ UNCHANGED <<detVars, svc, hung, running, process, procAlive, exitCode, returncode, orphans,
                   task, tpc, cancelReq, retry_delay, sleeping, last_output_age,
                   grew, unseen, deficit, counted, cpc, awaited, published, hist>>

(* delete_recording, or cleanup_old_recordings, unlinks an older recording *)
(* of the monitored directory: a file of d units that the loop had counted *)
(* into last_total_size.                                                   *)
DeleteRecording ==
    /\ svc = "recorder"
    /\ ~rolled /\ counted
    /\ \E t \in Tasks : tpc[t] = "poll_sleep"
    /\ \E d \in 1..MaxDeficit :
          /\ deficit + d <= MaxDeficit
          /\ deficit' = IF grew THEN d - 1 ELSE deficit + d
    /\ grew' = FALSE
    /\ UNCHANGED <<detVars, svc, hung, running, process, procAlive, exitCode, returncode, orphans,
                   task, tpc, cancelReq, retry_delay, sleeping, last_output_age,
                   nonEmpty, unseen, rolled, counted, cpc, awaited, published, hist>>

(* A status client stops reading: from now on send_text to it does not    *)
(* complete.                                                               *)
ClientHangs ==
    /\ ~hung
    /\ hung' = TRUE
    /\ UNCHANGED <<detVars, svc, running, process, procAlive, exitCode, returncode, orphans,
                   task, tpc, cancelReq, retry_delay, sleeping, last_output_age,
                   nonEmpty, grew, unseen, rolled, deficit, counted, cpc, awaited,
                   published, hist>>

(* The live streamer process writes a segment or the playlist. *)
HlsWrite ==
    /\ svc = "hls_streamer"
    /\ procAlive
    /\ hist.run.quiet > 0
    /\ hist' = [hist EXCEPT !.run.quiet = 0]
    /\ UNCHANGED <<detVars, svc, hung, running, process, procAlive, exitCode, returncode, orphans,
                   task, tpc, cancelReq, retry_delay, sleeping, last_output_age,
                   nonEmpty, grew, unseen, rolled, deficit, counted, cpc, awaited, published>>

----------------------------------------------------------------------------
TaskStep ==
    \E t \in Tasks :
        \/ TaskBegin(t)
        \/ TaskConnected(t)
        \/ TaskPoll(t)
        \/ TaskErrorSent(t)
        \/ TaskReconnectSent(t)
        \/ TaskBackoff(t)

Next ==
    \/ TaskStep
    \/ \E t \in Tasks : TaskCancelled(t)
    \/ \E c \in Callers : StartCall(c) \/ StartReturn(c)
    \/ \E c \in Callers : StopCall(c) \/ StopResume(c) \/ StopReturn(c)
    \/ ProcExit \/ OrphanExit \/ ProcWrite

(* Any interleaving of start() and stop() calls with the monitor loop.     *)
Spec == Init /\ [][Next]_vars

(* One start() call that stays in effect: the monitor loop and the         *)
(* processes, with the history of the run's sessions.                      *)
NextTiming ==
    \/ TaskStep
    \/ \E c \in Callers : (task = 0 /\ StartCall(c)) \/ StartReturn(c)
    \/ ProcExit \/ OrphanExit \/ ProcWrite \/ HlsWrite

SpecTiming == InitTiming /\ [][NextTiming]_vars

(* The same, with the calendar and the deletion of recordings.             *)
NextStorage ==
    \/ NextTiming
    \/ DateRollover
    \/ DeleteRecording

SpecStorage == InitTiming /\ [][NextStorage]_vars

(* One start() call that stays in effect, with a status client that may    *)
(* stop reading.  The event loop runs every task that is ready, and every  *)
(* process that is no longer referenced ends at some time.                 *)
NextClient ==
    \/ TaskStep
    \/ \E c \in Callers : (task = 0 /\ StartCall(c)) \/ StartReturn(c)
    \/ ProcExit \/ OrphanExit \/ ProcWrite
    \/ ClientHangs

SpecClient ==
    /\ InitTiming /\ [][NextClient]_vars
    /\ WF_vars(TaskStep) /\ WF_vars(OrphanExit)

----------------------------------------------------------------------------
(* PersonDetector: the frame pipeline.                                      *)

Max(a, b) == IF a > b THEN a ELSE b

(* Frames and classifier results the model draws from.                     *)
Scores == {0, 60, 80}
Frames == {[global |-> TRUE, score |-> 0, dets |-> NoDetections]}
          \cup {[global |-> FALSE, score |-> s, dets |-> NoDetections] : s \in Scores}
Detections ==
    {NoDetections,
     [person |-> 90, animal |-> 0, vehicle |-> 0],
     [person |-> 70, animal |-> 0, vehicle |-> 0],
     [person |-> 69, animal |-> 0, vehicle |-> 0],
     [person |-> 50, animal |-> 90, vehicle |-> 0],
     [person |-> 0, animal |-> 90, vehicle |-> 0],
     [person |-> 0, animal |-> 0, vehicle |-> 90],
     [person |-> 50, animal |-> 0, vehicle |-> 90]}

(* Seconds that may pass between two frames: the sampling sleep and the    *)
(* blocking cap.read().  Time stands still where the frames' history is    *)
(* not kept.                                                               *)
Elapsed == IF out.frames THEN {0, 5, 10, 60} ELSE {0}
TimeCap == 60

(* if detections: (a non-empty list) *)
Found(d) == d.person > 0 \/ d.animal > 0 \/ d.vehicle > 0

(* has_person, has_animal and confidence of _handle_detection *)
HasPerson(d) == d.person > 0

HasAnimal(d) == d.animal > 0

Confidence(d, score) ==
    IF Found(d) THEN Max(d.person, Max(d.animal, d.vehicle)) ELSE score

(* An importance that does not look at the confidence. *)
ImportanceByClass(has_person, confidence, has_animal) ==
    IF has_person THEN 4
    ELSE IF has_animal THEN 2
    ELSE 1

(* An importance scale that uses its middle value, for an animal. *)
ImportanceGraded(has_person, confidence, has_animal) ==
    IF has_person /\ confidence >= 70 THEN 5
    ELSE IF has_person THEN 4
    ELSE IF has_animal THEN 3
    ELSE 1

(* Importance scoring *)
ImportanceOf(has_person, confidence, has_animal) ==
    IF has_person /\ confidence >= 70 THEN 5
    ELSE IF has_person THEN 4
    ELSE IF has_animal THEN 2
    ELSE 1

Importance(d, score) == ImportanceOf(HasPerson(d), Confidence(d, score), HasAnimal(d))

(* should_send_gif = importance >= 4 *)
ShouldSendGif(importance) == importance >= 4

(* The parameters EventStore.add_event declares, and the keywords that     *)
(* _handle_detection passes to it.  A keyword that is not a parameter      *)
(* makes the call raise TypeError.                                         *)
AddEventParameters ==
    {"timestamp", "confidence", "thumbnail_path", "analysis",
     "analysis_confidence", "analysis_model"}

AddEventKeywords ==
    {"timestamp", "confidence", "thumbnail_path", "analysis",
     "analysis_confidence", "analysis_model", "analysis_importance",
     "analysis_send_gif"}

(* An add_event that takes every keyword it is given. *)
AddEventAccepts == FALSE

AddEventRaises == ~(AddEventKeywords \subseteq AddEventParameters)

(* exc: an exception is propagating; t: the task; stale: the latest frame  *)
(* of the task was scored against a background model that had learned from *)
(* another connection.                                                     *)
DFrame(t) ==
    [t |-> t, pc |-> dloop.pc[t], rd |-> dloop.retry_delay[t], cap |-> dloop.cap[t],
     frame |-> dloop.frame[t], stale |-> dloop.stale[t], exc |-> FALSE,
     det |-> det, out |-> out]

DCommit(t, S) ==
    /\ dloop' = [dloop EXCEPT !.pc[t] = S.pc,
                              !.retry_delay[t] = IF S.pc = "done" THEN RetryFloor ELSE S.rd,
                              !.cap[t] = S.cap,
                              !.frame[t] = IF S.pc \in {"detecting", "saving"}
                                           THEN S.frame ELSE NoFrame,
                              !.stale[t] = S.stale /\ S.pc \in {"detecting", "saving",
                                                                "frame_sleep"}]
    /\ det' = S.det
    /\ out' = IF out.frames THEN S.out ELSE [out EXCEPT !.status = S.out.status]
    /\ UNCHANGED <<supVars, file, seg, dcall, settings>>

DPublish(S, status) == [S EXCEPT !.out.status = status]

(* The notification gate of _handle_detection, lines 509-527: the cooldown *)
(* timestamp is set and the alert task is created.                         *)
NotifyGate(S, d, score) ==
    IF /\ settings.telegram_enabled
       /\ \/ S.det.last_detection_age = NoTime
          \/ S.det.last_detection_age >= settings.notification_cooldown_seconds
       /\ HasPerson(d) \/ Importance(d, score) >= 3
    THEN [S EXCEPT !.det.last_detection_age = 0,
                   !.out.latest.notified = TRUE]
    ELSE S

(* A handler that hands every detection to the notification service. *)
DispatchUngated(S, d, score) ==
    [S EXCEPT !.out.latest.enabled = settings.telegram_enabled,
              !.out.latest.due = TRUE,
              !.out.latest.notified = TRUE,
              !.det.last_detection_age = 0]

(* A handler that records the time of every event it handles. *)
StampEveryEvent(S, d, score) ==
    [S EXCEPT !.out.latest.enabled = settings.telegram_enabled,
              !.out.latest.due = TRUE,
              !.det.last_detection_age = 0]

(* _handle_detection after the thumbnail: add_event, send_detection_event, *)
(* the notification gate.  An exception leaves _handle_detection.          *)
StoreAndNotify(S, d, score) ==
    LET S1 == [S EXCEPT !.out.latest.enabled = settings.telegram_enabled,
                        !.out.latest.due =
                            \/ S.det.last_detection_age = NoTime
                            \/ S.det.last_detection_age
                                   >= settings.notification_cooldown_seconds]
    IN IF AddEventRaises
       THEN [S1 EXCEPT !.exc = TRUE]
       ELSE NotifyGate([S1 EXCEPT !.out.latest.stored = TRUE,
                                  !.out.latest.broadcast = TRUE], d, score)

(* A sampling controller with two rates. *)
IntervalTwoRates(has_motion, idle_seconds) ==
    IF has_motion THEN FAST_INTERVAL ELSE NORMAL_INTERVAL

(* The interval _update_sampling_rate chooses; idle_seconds is NoTime when *)
(* _last_motion_time is None.                                              *)
IntervalFor(has_motion, idle_seconds) ==
    IF has_motion THEN FAST_INTERVAL
    ELSE IF idle_seconds # NoTime
         THEN IF idle_seconds > 30 THEN IDLE_INTERVAL
              ELSE IF idle_seconds > 5 THEN NORMAL_INTERVAL
              ELSE FAST_INTERVAL
         ELSE NORMAL_INTERVAL

(* _update_sampling_rate(has_motion, now) *)
UpdateSamplingRate(S, has_motion) ==
    LET S1 == [S EXCEPT !.out.latest.fed = IF has_motion THEN "motion" ELSE "still",
                        !.det.current_interval =
                            IntervalFor(has_motion, S.det.last_motion_age)]
    IN IF has_motion THEN [S1 EXCEPT !.det.last_motion_age = 0] ELSE S1

(* After _process_frame: await asyncio.sleep(self._current_interval) *)
FrameDone(S) == [S EXCEPT !.pc = "frame_sleep"]

(* _handle_detection up to its first await, the saving of the thumbnail.   *)
HandleDetection(S, d) ==
    [S EXCEPT !.pc = "saving",
              !.frame.dets = d,
              !.out.latest.confirmed = TRUE,
              !.out.latest.person = HasPerson(d),
              !.out.latest.animal = HasAnimal(d),
              !.out.latest.confidence = Confidence(d, S.frame.score),
              !.out.latest.importance = Importance(d, S.frame.score),
              !.out.latest.send_gif = ShouldSendGif(Importance(d, S.frame.score)),
              !.out.latest.important = Importance(d, S.frame.score) >= 3]

(* The result of _detect_objects is in: detections, or high motion alone,  *)
(* go to _handle_detection.                                                *)
AfterDetect(S, d) ==
    IF Found(d) THEN HandleDetection([S EXCEPT !.out.latest.found = TRUE], d)
    ELSE IF S.frame.score >= 70 THEN HandleDetection(S, NoDetections)
    ELSE FrameDone(S)

(* _detect_objects: without a model it returns [] at once, with a model it *)
(* awaits the executor.                                                    *)
DetectObjects(S) ==
    LET S1 == [S EXCEPT !.out.latest.classified = TRUE]
    IN IF S1.det.net = "ok" THEN [S1 EXCEPT !.pc = "detecting"]
       ELSE AfterDetect(S1, NoDetections)

(* The frame counts towards a detection: not a global change, and its      *)
(* motion score reaches the threshold.                                     *)
Qualifying(f) == ~f.global /\ f.score >= settings.detection_threshold

(* A counter that a non-qualifying frame leaves as it is. *)
KeepCount(S) == S

(* self._motion_frame_count = 0 *)
ResetCount(S) == [S EXCEPT !.det.motion_frame_count = 0]

(* A pipeline that does not look at the segmenter's flag. *)
NeverGlobal(f) == FALSE

(* if is_global: *)
IsGlobal(f) == f.global

(* fg_mask = self._bg_subtractor.apply(small_frame): the model scores the   *)
(* frame and learns from it.                                               *)
ApplyBackground(S) ==
    [S EXCEPT !.stale = S.det.bg.owner # S.t \/ S.det.bg.tainted,
              !.det.bg.tainted = @ \/ S.det.bg.owner # S.t]

(* _process_frame up to its first await.  The counter is kept up to        *)
(* MaxCount, which is above every consecutive_frames_required.             *)
ProcessFrame(S, f) ==
    LET S0 == [ApplyBackground(S) EXCEPT
                   !.frame = f,
                   !.out.latest = [NoHistory EXCEPT !.global = f.global,
                                                    !.score = f.score],
                   !.out.streak = IF Qualifying(f) THEN Min(@ + 1, MaxCount) ELSE 0]
    IN IF IsGlobal(f)
       THEN FrameDone(UpdateSamplingRate(ResetCount(S0), FALSE))
       ELSE IF f.score >= settings.detection_threshold
            THEN LET S1 == UpdateSamplingRate(
                               [S0 EXCEPT !.det.motion_frame_count = Min(@ + 1, MaxCount)],
                               TRUE)
                 IN IF S1.det.motion_frame_count >= S1.det.consecutive_frames_required
                    THEN DetectObjects(S1)
                    ELSE FrameDone(S1)
            ELSE FrameDone(UpdateSamplingRate(ResetCount(S0), FALSE))

(* dt seconds pass. *)
Advance(S, dt) ==
    [S EXCEPT !.det.last_detection_age = IF @ = NoTime THEN @ ELSE Min(@ + dt, TimeCap),
              !.det.last_motion_age = IF @ = NoTime THEN @ ELSE Min(@ + dt, TimeCap)]

(* cap.release(): the connection is over, and a model created at its       *)
(* connect is from now on the model of an earlier connection.              *)
ReleaseCapture(S) ==
    [S EXCEPT !.det.bg.owner = IF @ = S.t THEN NoModel ELSE @]

(* finally: cap.release(); then the reconnect block. *)
DReconnect(S) ==
    LET S1 == ReleaseCapture([S EXCEPT !.cap = FALSE])
    IN IF S1.det.running
       THEN DPublish([S1 EXCEPT !.pc = "reconnect_sent"], "reconnecting")
       ELSE [S1 EXCEPT !.pc = "done"]

(* A _process_frame without an exception handler. *)
Uncaught(S) == S

(* _process_frame: except Exception as e: logger.error(...) *)
ProcessFrameExcept(S) == [S EXCEPT !.exc = FALSE]

(* _process_frame has returned: the sampling sleep; an exception that      *)
(* leaves it goes to the handler of the loop, and the loop reconnects.     *)
AfterProcessFrame(S) ==
    IF S.exc THEN DReconnect([S EXCEPT !.exc = FALSE]) ELSE FrameDone(S)

(* while self._running and cap.isOpened(): ret, frame = cap.read()         *)
(* ret = FALSE also stands for a capture that is no longer open.           *)
DReadFrame(S, ret, f) ==
    IF ~S.det.running \/ ~ret
    THEN DReconnect(S)
    ELSE ProcessFrame(S, f)

(* A loop that keeps the background model it has. *)
KeepBackground(S) == S

(* Reset background subtractor on reconnect *)
ResetBackground(S) == [S EXCEPT !.det.bg = NewModel(S.t)]

(* while self._running: open the capture; publish 'connected' *)
DLoopHead(S, opened) ==
    IF ~S.det.running
    THEN [S EXCEPT !.pc = "done"]
    ELSE IF opened
         THEN DPublish([S EXCEPT !.pc = "connected_sent", !.cap = TRUE], "connected")
         ELSE DReconnect(S)

----------------------------------------------------------------------------
(* PersonDetector: the detection loop task.                                *)

DCancelling == {dloop.cancelReq[i] : i \in 1..Len(dloop.cancelReq)}

DRunnable(t) == dloop.cancelReq = <<>>

(* The task starts running. *)
DTaskBegin(t) ==
    /\ dloop.pc[t] = "loop" /\ DRunnable(t)
    /\ \E opened \in BOOLEAN : DCommit(t, DLoopHead(DFrame(t), opened))

(* 'connected' has been sent: retry_delay = 5, a new background            *)
(* subtractor, and the first frame is read.                                *)
DTaskConnected(t) ==
    /\ dloop.pc[t] = "connected_sent" /\ DRunnable(t) /\ Delivered
    /\ \E ret \in BOOLEAN, f \in Frames :
          DCommit(t, DReadFrame(ResetBackground([DFrame(t) EXCEPT !.rd = RetryFloor]),
                                ret, f))

(* The sampling sleep is over and the next frame is read. *)
DTaskFrame(t) ==
    /\ dloop.pc[t] = "frame_sleep" /\ DRunnable(t)
    /\ \E ret \in BOOLEAN, f \in Frames, dt \in Elapsed :
          DCommit(t, DReadFrame(Advance(DFrame(t), dt), ret, f))

(* The classifier returns its detections, or raises: _detect_objects       *)
(* catches the exception and returns [].                                   *)
DTaskClassified(t) ==
    /\ dloop.pc[t] = "detecting" /\ DRunnable(t)
    /\ \E d \in Detections, raises \in BOOLEAN :
          DCommit(t, AfterDetect(DFrame(t), IF raises THEN NoDetections ELSE d))

(* The thumbnail is saved, or saving has failed and _save_thumbnail has    *)
(* returned None: _handle_detection runs on to its end or to an exception. *)
DTaskSaved(t) ==
    /\ dloop.pc[t] = "saving" /\ DRunnable(t)
    /\ LET S == DFrame(t)
       IN DCommit(t, AfterProcessFrame(
                         ProcessFrameExcept(
                             StoreAndNotify(S, S.frame.dets, S.frame.score))))

(* 'reconnecting' has been sent: await asyncio.sleep(retry_delay) *)
DTaskReconnectSent(t) ==
    /\ dloop.pc[t] = "reconnect_sent" /\ DRunnable(t) /\ Delivered
    /\ DCommit(t, [DFrame(t) EXCEPT !.pc = "backoff"])

(* The backoff is over: retry_delay doubles and the loop starts over.      *)
DTaskBackoff(t) ==
    /\ dloop.pc[t] = "backoff" /\ DRunnable(t)
    /\ \E opened \in BOOLEAN :
          DCommit(t, DLoopHead([DFrame(t) EXCEPT !.rd = NextDelay(@)], opened))

(* CancelledError at the task's await: the finally clause releases the     *)
(* capture and the task ends.                                              *)
DTaskCancelled(t) ==
    /\ dloop.cancelReq # <<>> /\ t = Head(dloop.cancelReq)
    /\ dloop' = [dloop EXCEPT !.pc[t] = "done", !.cap[t] = FALSE,
                              !.retry_delay[t] = RetryFloor, !.frame[t] = NoFrame,
                              !.stale[t] = FALSE,
                              !.cancelReq = Tail(@)]
    /\ det' = ReleaseCapture(DFrame(t)).det
    /\ UNCHANGED <<supVars, file, seg, dcall, settings, out>>

(* start() and stop() of the detector, called from tasks of the event loop. *)

DFreeTasks == {t \in Tasks : dloop.pc[t] \in {"none", "done"} /\ t \notin DCancelling}

DNewTask == CHOOSE t \in DFreeTasks : \A u \in DFreeTasks : t <= u

(* start() up to the await of the executor that loads the model: a new     *)
(* background subtractor is created.                                       *)
DStartCall(c) ==
    /\ dcall.pc[c] = "idle"
    /\ IF det.running
       THEN UNCHANGED detVars
       ELSE /\ det' = [det EXCEPT !.bg = NewModel(NoModel)]
            /\ dcall' = [dcall EXCEPT !.pc[c] = "loading", !.raced = FALSE]
            /\ UNCHANGED <<dloop, settings, out>>
    /\ UNCHANGED <<supVars, file, seg>>

(* _load_model has returned: _running = True, the task is created and      *)
(* 'running' is published.                                                 *)
DStartLoaded(c) ==
    /\ dcall.pc[c] = "loading"
    /\ DFreeTasks # {}
    /\ \E loaded \in {"ok", "none"} :
          det' = [det EXCEPT !.running = TRUE, !.task = DNewTask,
                             !.net = IF @ = "unloaded" THEN loaded ELSE @]
    /\ dloop' = [dloop EXCEPT !.pc[DNewTask] = "loop"]
    /\ dcall' = [dcall EXCEPT !.pc[c] = "start_pub"]
    /\ out' = [out EXCEPT !.status = "running"]
    /\ UNCHANGED <<supVars, file, seg, settings>>

DStartReturn(c) ==
    /\ dcall.pc[c] = "start_pub" /\ Delivered
    /\ dcall' = [dcall EXCEPT !.pc[c] = "idle"]
    /\ UNCHANGED <<supVars, file, seg, det, dloop, settings, out>>

(* A start() is at its await of the model load. *)
DLoading == \E c \in Callers : dcall.pc[c] = "loading"

(* stop() up to "await self._task"; awaiting a task that is done does not  *)
(* suspend.  dcall.raced records that a stop() has been called during the  *)
(* model load of a start(), and that no start() has been called since.     *)
DStopCall(c) ==
    /\ dcall.pc[c] = "idle"
    /\ det' = [det EXCEPT !.running = FALSE]
    /\ LET t == det.task
           ended == t = 0 \/ dloop.pc[t] = "done"
       IN /\ dloop' = IF ended \/ t \in DCancelling THEN dloop
                      ELSE [dloop EXCEPT !.cancelReq = Append(@, t)]
          /\ dcall' = IF ended
                      THEN [dcall EXCEPT !.pc[c] = "stop_pub", !.raced = @ \/ DLoading]
                      ELSE [dcall EXCEPT !.pc[c] = "stop_await", !.awaited[c] = t,
                                         !.raced = @ \/ DLoading]
          /\ out' = IF ended THEN [out EXCEPT !.status = "stopped"] ELSE out
    /\ UNCHANGED <<supVars, file, seg, settings>>

(* The awaited task has ended: 'stopped' is published. *)
DStopResume(c) ==
    /\ dcall.pc[c] = "stop_await"
    /\ dloop.pc[dcall.awaited[c]] = "done"
    /\ dcall' = [dcall EXCEPT !.pc[c] = "stop_pub", !.awaited[c] = 0]
    /\ out' = [out EXCEPT !.status = "stopped"]
    /\ UNCHANGED <<supVars, file, seg, det, dloop, settings>>

DStopReturn(c) ==
    /\ dcall.pc[c] = "stop_pub" /\ Delivered
    /\ dcall' = [dcall EXCEPT !.pc[c] = "idle"]
    /\ UNCHANGED <<supVars, file, seg, det, dloop, settings, out>>

(* update_settings: the checks that answer 400 and change nothing. *)
ValidUpdate(key, value) ==
    /\ key = "detection_threshold" => (10 <= value /\ value <= 100)
    /\ key = "notification_cooldown_seconds" => (0 <= value /\ value <= 3600)

(* PUT /api/settings with one field: validate, then runtime_settings.update, *)
(* which sets the attribute and saves every setting to the file.            *)
UpdateSettings(key, value) ==
    /\ ValidUpdate(key, value)
    /\ settings' = [settings EXCEPT ![key] = value]
    /\ file' = settings'
    /\ UNCHANGED <<supVars, seg, det, dloop, dcall, out>>

(* PUT /api/settings switches the notifications on or off. *)
SettingsUpdate == UpdateSettings("telegram_enabled", ~settings.telegram_enabled)

(* POST /api/settings/reload: runtime_settings._load() takes each value of *)
(* the file as it is.                                                      *)
ReloadSettings ==
    /\ settings' = file
    /\ UNCHANGED <<supVars, file, seg, det, dloop, dcall, out>>

(* An operator edits config/settings.json. *)
EditFile(data) ==
    /\ file' = data
    /\ UNCHANGED <<supVars, settings, seg, det, dloop, dcall, out>>

DTaskStep ==
    \E t \in Tasks :
        \/ DTaskBegin(t)
        \/ DTaskConnected(t)
        \/ DTaskFrame(t)
        \/ DTaskClassified(t)
        \/ DTaskSaved(t)
        \/ DTaskReconnectSent(t)
        \/ DTaskBackoff(t)

(* The supervisors stay as constructed while the detector is examined.     *)
InitSupervisorIdle == InitProgram /\ svc = "recorder" /\ hist = InitHist(FALSE)

(* Any interleaving of the detector's start() and stop() calls with its    *)
(* detection loop.                                                         *)
InitDetectorLife == InitSupervisorIdle /\ InitDetector(1, DefaultSettings, FALSE)

NextDetectorLife ==
    \/ DTaskStep
    \/ \E t \in Tasks : DTaskCancelled(t)
    \/ \E c \in Callers : DStartCall(c) \/ DStartLoaded(c) \/ DStartReturn(c)
    \/ \E c \in Callers : DStopCall(c) \/ DStopResume(c) \/ DStopReturn(c)

SpecDetectorLife == InitDetectorLife /\ [][NextDetectorLife]_vars

(* The same, with stop() called only when no start() or stop() call is in  *)
(* progress: every start() has completed before a stop() is called.        *)
DCallersIdle == \A c \in Callers : dcall.pc[c] = "idle"

NextDetectorStop ==
    \/ DTaskStep
    \/ \E t \in Tasks : DTaskCancelled(t)
    \/ \E c \in Callers : DStartCall(c) \/ DStartLoaded(c) \/ DStartReturn(c)
    \/ \E c \in Callers : (DCallersIdle /\ DStopCall(c)) \/ DStopResume(c)
                          \/ DStopReturn(c)

SpecDetectorStop == InitDetectorLife /\ [][NextDetectorStop]_vars

(* start() and stop() called one after the other: a call is made only when *)
(* the call before it has returned.                                        *)
NextDetectorRestart ==
    \/ DTaskStep
    \/ \E t \in Tasks : DTaskCancelled(t)
    \/ \E c \in Callers : (DCallersIdle /\ DStartCall(c)) \/ DStartLoaded(c)
                          \/ DStartReturn(c)
    \/ \E c \in Callers : (DCallersIdle /\ DStopCall(c)) \/ DStopResume(c)
                          \/ DStopReturn(c)

SpecDetectorRestart == InitDetectorLife /\ [][NextDetectorRestart]_vars

(* One start() of the detector that stays in effect: the frame pipeline    *)
(* for every consecutive_frames_required, threshold and cooldown of the    *)
(* model, with the notifications switched on and off.                      *)
Required == {1, 3}
Thresholds == {0, 50}
Cooldowns == {0, 60}

InitPipeline ==
    /\ InitSupervisorIdle
    /\ \E n \in Required, th \in Thresholds, cd \in Cooldowns :
          InitDetector(n, [DefaultSettings EXCEPT !.detection_threshold = th,
                                                  !.notification_cooldown_seconds = cd],
                       TRUE)

NextPipeline ==
    \/ DTaskStep
    \/ \E c \in Callers : (det.task = 0 /\ dcall.pc = [k \in Callers |-> "idle"]
                             /\ DStartCall(c))
                          \/ DStartLoaded(c) \/ DStartReturn(c)
    \/ SettingsUpdate

SpecPipeline == InitPipeline /\ [][NextPipeline]_vars

----------------------------------------------------------------------------
(* _compute_motion_score, from the contours on.                            *)

(* A contour that does not count: area < min_area, min_area = frame_area * 0.001 *)
NothingIsNoise(area, frame_area) == FALSE
IsNoise(area, frame_area) == area * 1000 < frame_area

(* for contour in contours: area = cv2.contourArea(contour) ...            *)
RECURSIVE CountContours(_, _, _)
CountContours(contours, frame_area, acc) ==
    IF contours = <<>>
    THEN acc
    ELSE LET c == Head(contours)
         IN IF IsNoise(c.area, frame_area)
            THEN CountContours(Tail(contours), frame_area, acc)
            ELSE CountContours(Tail(contours), frame_area,
                     [valid_contours |-> acc.valid_contours + c.n,
                      total_area |-> acc.total_area + c.n * c.area,
                      max_area |-> IF c.area > acc.max_area THEN c.area ELSE acc.max_area,
                      max_rect |-> IF c.area > acc.max_area THEN <<c.w, c.h>>
                                                            ELSE acc.max_rect])

(* band_like: False while max_rect is None *)
BandLike(max_rect, width, height) ==
    /\ max_rect # NoRect
    /\ \/ max_rect[1] * 100 > width * 85 /\ max_rect[2] * 100 > height * 25
       \/ max_rect[2] * 100 > height * 85 /\ max_rect[1] * 100 > width * 25

(* global_change, with area_ratio = total_area / frame_area *)
GlobalChange(c, width, height) ==
    \/ c.total_area * 2 > height * width
    \/ c.max_area * 10 > height * width * 4
    \/ BandLike(c.max_rect, width, height)
    \/ c.valid_contours > 50

(* min(100.0, area_ratio * 1000.0), in thousandths *)
MotionScore(total_area, frame_area) ==
    Min(100 * ScoreUnit, (total_area * 1000 * ScoreUnit) \div frame_area)

ComputeMotionScore(model, width, height, contours) ==
    IF ~model \/ height * width <= 0
    THEN [counted |-> NoContours, score |-> 0, global |-> FALSE]
    ELSE LET c == CountContours(contours, height * width, NoContours)
         IN IF GlobalChange(c, width, height)
            THEN [counted |-> c, score |-> 0, global |-> TRUE]
            ELSE [counted |-> c, score |-> MotionScore(c.total_area, height * width),
                  global |-> FALSE]

(* The frames of the calls: a mask of MaskWidth x MaskHeight or an empty   *)
(* one, and at most MaxContours groups of contours that fit into it.       *)
MaskWidth == 50
MaskHeight == 40
MaxContours == 2
Areas == {1, 2, 100, 600, 800, 801}
Rects == {<<2, 2>>, <<13, 34>>, <<13, 35>>, <<43, 10>>, <<30, 30>>}
Counts == {1, 50, 51}

ContourGroups ==
    {g \in [area : Areas, w : {r[1] : r \in Rects}, h : {r[2] : r \in Rects}, n : Counts] :
        /\ <<g.w, g.h>> \in Rects
        /\ g.area <= g.w * g.h
        /\ g.n * g.w * g.h <= MaskWidth * MaskHeight}

RECURSIVE SumAreas(_)
SumAreas(contours) ==
    IF contours = <<>> THEN 0
    ELSE Head(contours).n * Head(contours).area + SumAreas(Tail(contours))

ContourLists ==
    {cs \in UNION {[1..k -> ContourGroups] : k \in 0..MaxContours} :
        SumAreas(cs) <= MaskWidth * MaskHeight}

(* motion_score, is_global_change = self._compute_motion_score(frame)     *)
(* One call is followed: what it returns depends on its frame only.       *)
ComputeMotionScoreCall(model, width, height, contours) ==
    /\ seg.pc = "none"
    /\ seg' = [pc |-> "returned", model |-> model, width |-> width, height |-> height,
                contours |-> contours]
               @@ ComputeMotionScore(model, width, height, contours)
    /\ UNCHANGED <<supVars, det, dloop, dcall, settings, file, out>>

NextSegmenter ==
    \E model \in BOOLEAN :
        \/ \E contours \in ContourLists :
              ComputeMotionScoreCall(model, MaskWidth, MaskHeight, contours)
        \/ ComputeMotionScoreCall(model, 0, 0, <<>>)

SpecSegmenter == InitDetectorLife /\ [][NextSegmenter]_vars

(* The settings: requests that update them, edits of the file, reloads.    *)
ThresholdInputs == {9, 10, 50, 100, 101}
CooldownInputs == {-1, 0, 60, 3600, 3601}

Updates ==
    ({"telegram_enabled"} \X BOOLEAN)
        \cup ({"detection_threshold"} \X ThresholdInputs)
        \cup ({"notification_cooldown_seconds"} \X CooldownInputs)

FileContents ==
    [telegram_enabled : BOOLEAN, detection_threshold : ThresholdInputs,
     notification_cooldown_seconds : CooldownInputs]

NextSettings ==
    \/ \E u \in Updates : UpdateSettings(u[1], u[2])
    \/ ReloadSettings
    \/ \E data \in FileContents : EditFile(data)

SpecSettings == InitDetectorLife /\ [][NextSettings]_vars

(* One start() of the detector that stays in effect, with a status client  *)
(* that may stop reading.  The event loop runs every task that is ready.   *)
NextDetectorClient ==
    \/ DTaskStep
    \/ \E c \in Callers : (det.task = 0 /\ dcall.pc = [k \in Callers |-> "idle"]
                             /\ DStartCall(c))
                          \/ DStartLoaded(c) \/ DStartReturn(c)
    \/ ClientHangs

SpecDetectorClient ==
    /\ InitDetectorLife /\ [][NextDetectorClient]_vars
    /\ WF_vars(DTaskStep)

----------------------------------------------------------------------------
(* Claims *)

Active(t) == tpc[t] \notin {"none", "done"}

Live == (IF procAlive THEN 1 ELSE 0) + orphans

(* C1: in every reachable state at most one subprocess that the supervisor *)
(* launched is alive; a new one is launched only after the previous one    *)
(* has terminated.                                                         *)
C1_AtMostOneLive == Live <= 1

(* C2: after start(), two stop() calls made one after the other publish    *)
(* exactly one 'stopped' event.                                            *)
C2_StopTwiceOneEvent ==
    (task # 0 /\ hist.succ = 2 /\ \A c \in Callers : cpc[c] = "idle")
        => published.stopped = 1

(* C3: once stop() has returned, and until start() is called again, no     *)
(* subprocess launched by the supervisor is alive, no monitor task exists, *)
(* the supervisor is not desired-running and the latest event is 'stopped'.*)
C3_StoppedIsQuiet ==
    hist.quiesced =>
        /\ Live = 0
        /\ \A t \in Tasks : ~Active(t)
        /\ ~running /\ process = "None"
        /\ published.status = "stopped"

(* The part of C3 that concerns the process stop() knows and the task.     *)
C3_HandleAndTask ==
    hist.quiesced =>
        /\ ~procAlive
        /\ \A t \in Tasks : ~Active(t)
        /\ ~running /\ process = "None"
        /\ published.status = "stopped"

(* C4: start() calls with no stop() between them create exactly one        *)
(* monitor task and publish exactly one 'running' event, and a start() on  *)
(* a supervisor that is desired-running changes nothing.                   *)
C4_Counts ==
    /\ hist.tasksSince <= 1
    /\ hist.runningSince = hist.tasksSince
    /\ hist.startsSince >= 1 => hist.tasksSince = 1
    /\ Cardinality({t \in Tasks : Active(t) /\ Runnable(t)}) <= 1

Backoff(k) == Min(RetryFloor * 2 ^ (k - 1), RetryCap)

(* C5: recorder: while every session of the run has ended by the process   *)
(* exiting with code 1, the wait after the k-th of them (k = 1, 2, 3) is   *)
(* 5, 10, 20 seconds.                                                      *)
C5_RecorderBackoff ==
    \A t \in Tasks :
        (svc = "recorder" /\ tpc[t] = "backoff" /\ hist.run.allFailed
            /\ hist.run.waits <= 2)
        => sleeping[t] = Backoff(hist.run.waits + 1)

(* C6: streamer: the k-th wait of a run is min(5 * 2^(k-1), 60) seconds,   *)
(* and the 'reconnecting' message before it announces that delay.          *)
C6_StreamerBackoff ==
    \A t \in Tasks :
        (svc = "hls_streamer" /\ hist.run.waits < MaxWaits) =>
            /\ tpc[t] \in {"reconnect_sent", "backoff"}
                  => /\ published.status = "reconnecting"
                     /\ published.delay = Backoff(hist.run.waits + 1)
            /\ tpc[t] = "backoff" => sleeping[t] = Backoff(hist.run.waits + 1)

C6_Witness ==
    \E t \in Tasks :
        /\ svc = "hls_streamer" /\ tpc[t] = "backoff" /\ hist.run.waits = 5
        /\ sleeping[t] = RetryCap /\ published.delay = RetryCap

(* C7: recorder: after a session in which the monitor observed output and  *)
(* that ended by process exit or stall termination, the wait is the floor. *)
C7_ResetAfterOutput ==
    \A t \in Tasks :
        (svc = "recorder" /\ tpc[t] = "backoff" /\ hist.run.output
            /\ hist.run.ended \in {"exit", "stall"})
        => sleeping[t] = RetryFloor

(* C8: streamer: after a session that stayed alive for 10 s or more the    *)
(* wait is the floor.                                                      *)
C8_StreamerReset ==
    \A t \in Tasks :
        (svc = "hls_streamer" /\ tpc[t] = "backoff" /\ hist.run.alive >= ResetWindow)
        => sleeping[t] = RetryFloor

C11_StallOnlyIfQuiet ==
    (svc = "recorder" /\ hist.run.ended = "stall") => hist.run.quiet >= StallTimeout

(* C12: while start() is in effect, the monitor task does not end, and     *)
(* after a session has ended the loop goes on to its next launch: the      *)
(* backoff wait begins, and the wait is followed by the launch.            *)
C12_RelaunchFollows ==
    /\ [](\A t \in Tasks : (running /\ task = t) => tpc[t] # "done")
    /\ \A t \in Tasks :
          /\ (tpc[t] \in {"error_sent", "reconnect_sent"}) ~> (tpc[t] = "backoff")
          /\ (tpc[t] = "backoff") ~> (tpc[t] \in {"connected_sent", "reconnect_sent"})

(* The latest session ended by a failure of the process: a non-zero exit  *)
(* code, or termination as stalled.                                        *)
ProcessFailed ==
    \/ hist.run.ended = "stall"
    \/ hist.run.ended = "exit" /\ returncode \notin {0, NoCode}

(* C13: of either supervisor: every launch is followed by 'connected',     *)
(* every backoff is announced by 'reconnecting' with its delay, and every  *)
(* process failure has published 'error' before the backoff is announced.  *)
C13_EveryTransitionPublished ==
    \A t \in Tasks :
        /\ tpc[t] = "connected_sent" => published.status = "connected"
        /\ tpc[t] = "reconnect_sent" =>
              /\ published.status = "reconnecting"
              /\ published.delay = retry_delay[t]
        /\ (tpc[t] \in {"reconnect_sent", "backoff"} /\ ProcessFailed)
              => hist.run.errored

(* C14: the await of a status event always ends, so that the monitor loop  *)
(* goes on polling the process, whatever the status clients do.            *)
C14_NoBackpressure ==
    \A t \in Tasks : (tpc[t] = "connected_sent") ~> (tpc[t] # "connected_sent")

(* A detection loop that exists and has no cancellation pending; a loop   *)
(* that is between the read of a frame and the end of _process_frame.      *)
DActive(t) == dloop.pc[t] \notin {"none", "done"} /\ t \notin DCancelling

DInFlight(t) == dloop.pc[t] \in {"detecting", "saving"} /\ t \notin DCancelling

(* C15: of one PersonDetector, at most one detection loop is active and    *)
(* at most one frame is being processed at any time.                       *)
C15_OneLoopOneFrame ==
    /\ Cardinality({t \in Tasks : DActive(t)}) <= 1
    /\ Cardinality({t \in Tasks : DInFlight(t)}) <= 1

(* C10: streamer: a process that is alive never stays without output for  *)
(* longer than the stall timeout.                                          *)
C10_StreamerStall ==
    (svc = "hls_streamer" /\ procAlive) => hist.run.quiet <= StallTimeout

C17_GlobalChange ==
    out.latest.global =>
        /\ det.motion_frame_count = 0
        /\ out.latest.fed = "still"
        /\ ~out.latest.classified /\ ~out.latest.confirmed
        /\ ~out.latest.stored /\ ~out.latest.broadcast /\ ~out.latest.notified

(* A global change has been processed by a detector whose threshold every  *)
(* motion score reaches.                                                   *)
C17_GlobalAtZero ==
    /\ out.latest.global
    /\ settings.detection_threshold = 0
    /\ \E t \in Tasks : dloop.pc[t] = "frame_sleep"

(* C18: once a confirmed detection (classifier detections, or a motion     *)
(* score of 70 or more) has been handled, its event is in the event store  *)
(* and has been broadcast to the live clients, whatever the notification   *)
(* settings and the cooldown are.                                          *)
C18_EventRecorded ==
    \A t \in Tasks :
        (dloop.pc[t] = "frame_sleep" /\ out.latest.confirmed)
            => (out.latest.stored /\ out.latest.broadcast)

C20_NotificationAllowed ==
    out.latest.notified =>
        /\ out.latest.enabled
        /\ out.latest.person \/ out.latest.important

(* A detection has been handled while notifications were disabled.         *)
C20_HandledWhileDisabled ==
    /\ ~settings.telegram_enabled
    /\ \E t \in Tasks : dloop.pc[t] = "frame_sleep"
    /\ out.latest.confirmed /\ ~out.latest.enabled /\ ~out.latest.notified

C22_ImportanceMapping ==
    out.latest.confirmed =>
        /\ out.latest.importance \in 1..5
        /\ (out.latest.person /\ out.latest.confidence >= 70) => out.latest.importance = 5
        /\ (out.latest.person /\ out.latest.confidence < 70) => out.latest.importance = 4
        /\ (~out.latest.person /\ out.latest.animal) => out.latest.importance = 2
        /\ (~out.latest.person /\ ~out.latest.animal) => out.latest.importance = 1
        /\ out.latest.send_gif <=> out.latest.importance >= 4

(* A person detected with confidence 70, on the border of the two highest  *)
(* importances.                                                            *)
C22_PersonAtSeventy ==
    /\ out.latest.confirmed /\ out.latest.person
    /\ out.latest.confidence = 70 /\ out.latest.importance = 5 /\ out.latest.send_gif

(* C23: an event has importance 5 only if a detection of class person in   *)
(* its frame has confidence 70 or more; a frame whose person detections    *)
(* are all below 70 has importance 4, whatever the confidence of its       *)
(* detections of other classes is.                                         *)
C23_PersonConfidence ==
    \A t \in Tasks :
        dloop.pc[t] = "saving" =>
            LET d == dloop.frame[t].dets
            IN /\ out.latest.importance = 5 => d.person >= 70
               /\ (d.person > 0 /\ d.person < 70) => out.latest.importance = 4

(* C24: when the classifier yields no detection for a frame it was invoked *)
(* on, an event is emitted exactly when the motion score is 70 or more,    *)
(* with the motion score as confidence and importance 1; below 70 there is *)
(* no event and no notification.                                           *)
C24_MotionOnly ==
    \A t \in Tasks :
        (dloop.pc[t] = "frame_sleep" /\ out.latest.classified /\ ~out.latest.found)
            => /\ (out.latest.stored /\ out.latest.broadcast) <=> out.latest.score >= 70
               /\ out.latest.confirmed =>
                      /\ out.latest.confidence = out.latest.score
                      /\ out.latest.importance = 1
               /\ out.latest.score < 70 =>
                      /\ ~out.latest.confirmed /\ ~out.latest.stored
                      /\ ~out.latest.broadcast /\ ~out.latest.notified

(* A frame is with the classifier or in _handle_detection. *)
DProcessing(t) == dloop.pc[t] \in {"detecting", "saving"}

(* C25: whatever the classification, the saving of the thumbnail, the      *)
(* recording of the event and the dispatch of the notification of a frame  *)
(* do, raising included, the detection loop goes from that frame to the    *)
(* sampling sleep before the next read: it does not end, the capture stays *)
(* open and no 'reconnecting' is published.                                *)
C25_FrameFailureRecoverable ==
    [][\A t \in Tasks :
          DProcessing(t) =>
              /\ \/ dloop'.pc[t] = dloop.pc[t]
                 \/ dloop.pc[t] = "detecting" /\ dloop'.pc[t] \in {"saving", "frame_sleep"}
                 \/ dloop.pc[t] = "saving" /\ dloop'.pc[t] = "frame_sleep"
              /\ dloop'.cap[t]
              /\ det'.running
              /\ out'.status = out.status]_vars

(* The recording of an event has raised, and the loop is at its sampling   *)
(* sleep with the capture open.                                            *)
C25_RaisedAndSleeping ==
    \E t \in Tasks :
        /\ dloop.pc[t] = "frame_sleep" /\ dloop.cap[t] /\ det.running
        /\ out.latest.confirmed /\ ~out.latest.stored

(* C26: while the detector is running, a frame source that cannot be       *)
(* opened or that returns no frame leads to the reconnection: the capture  *)
(* is released and 'reconnecting' is published, the backoff wait begins    *)
(* and is followed by a new attempt to open the source; the loop does not  *)
(* end.                                                                    *)
C26_SourceFailureReconnects ==
    /\ [](\A t \in Tasks :
             /\ (det.running /\ dloop.pc[t] # "none") => dloop.pc[t] # "done"
             /\ dloop.pc[t] = "reconnect_sent"
                    => (~dloop.cap[t] /\ out.status = "reconnecting"))
    /\ \A t \in Tasks :
          /\ (dloop.pc[t] = "reconnect_sent") ~> (dloop.pc[t] = "backoff")
          /\ (dloop.pc[t] = "backoff")
                 ~> (dloop.pc[t] \in {"connected_sent", "reconnect_sent"})

(* C27: after stop() has returned, every start() having completed before   *)
(* it was called, and until start() is called again: no detection loop     *)
(* task is left and no capture is open.                                    *)
C27_StopReleases ==
    (DCallersIdle /\ ~det.running /\ det.task # 0)
        => \A t \in Tasks : dloop.pc[t] \in {"none", "done"} /\ ~dloop.cap[t]

(* The loop has read a frame and has not yet read the next one, nor left   *)
(* the frame loop: no time has passed since _process_frame took "now".     *)
DAfterFrame(t) == dloop.pc[t] \in {"detecting", "saving", "frame_sleep"}

(* C28: after a frame fed with has_motion = true the sampling interval is  *)
(* FAST; after a frame without motion that is processed more than 30       *)
(* seconds after the last recorded motion it is IDLE.                      *)
C28_FastAndIdle ==
    (\E t \in Tasks : DAfterFrame(t)) =>
        /\ out.latest.fed = "motion" => det.current_interval = FAST_INTERVAL
        /\ (out.latest.fed = "still" /\ det.last_motion_age > 30)
               => det.current_interval = IDLE_INTERVAL

(* A frame without motion, 40 seconds after the last motion. *)
C28_IdleAfterForty ==
    /\ \E t \in Tasks : DAfterFrame(t)
    /\ out.latest.fed = "still"
    /\ det.last_motion_age = 40
    /\ det.current_interval = IDLE_INTERVAL

(* C29: after a frame without motion processed e seconds after the last    *)
(* recorded motion the interval is FAST if e < 5, NORMAL if 5 <= e <= 30,  *)
(* IDLE if e > 30; NORMAL when no motion was ever recorded.                *)
C29_IntervalByIdleTime ==
    ((\E t \in Tasks : DAfterFrame(t)) /\ out.latest.fed = "still") =>
        LET e == det.last_motion_age
        IN det.current_interval =
               IF e = NoTime THEN NORMAL_INTERVAL
               ELSE IF e < 5 THEN FAST_INTERVAL
               ELSE IF e <= 30 THEN NORMAL_INTERVAL
               ELSE IDLE_INTERVAL

(* C30: when start() sets the detector running, the sampling state is at   *)
(* its defaults: the interval is NORMAL, there is no last-motion timestamp *)
(* and the counter of consecutive motion frames is 0.                      *)
C30_StartResetsSampling ==
    [][\A c \in Callers :
          (dcall.pc[c] = "loading" /\ dcall'.pc[c] = "start_pub")
              => /\ det'.current_interval = NORMAL_INTERVAL
                 /\ det'.last_motion_age = NoTime
                 /\ det'.motion_frame_count = 0]_vars

(* C31: every frame is scored against a background model that was created *)
(* after the connect of the connection that delivered the frame and that   *)
(* has learned from no earlier connection.                                 *)
C31_FreshBackground ==
    \A t \in Tasks :
        DAfterFrame(t) => ~dloop.stale[t]

(* C34: in every reachable state the detection threshold the pipeline     *)
(* reads lies in [10, 100] and the notification cooldown in [0, 3600]      *)
(* seconds, whatever updates and reloads have happened.                    *)
C34_SettingsInRange ==
    /\ settings.detection_threshold \in 10..100
    /\ settings.notification_cooldown_seconds \in 0..3600

(* C32: a call whose frame has a valid foreground area ratio (total area   *)
(* of the counted regions / frame area) of at most 0.001 returns score 0   *)
(* and no global change.                                                   *)
C32_AtMostNoiseFloor ==
    (seg.pc = "returned" /\ seg.counted.total_area * 1000 <= seg.height * seg.width)
        => (seg.score = 0 /\ ~seg.global)

(* C32, amended: a call whose frame has a valid foreground area ratio      *)
(* below 0.001 returns score 0 and no global change.                       *)
C32_BelowNoiseFloor ==
    (seg.pc = "returned" /\ seg.counted.total_area * 1000 < seg.height * seg.width)
        => (seg.score = 0 /\ ~seg.global)

C32_OnlyNoise ==
    /\ seg.pc = "returned" /\ seg.model /\ seg.contours # <<>>
    /\ seg.counted.total_area * 1000 < seg.height * seg.width

(* C33: a call on a frame flags a global change, and returns score 0,      *)
(* exactly when area_ratio > 0.5, or one region exceeds 40% of the frame   *)
(* area, or the bounding box of the largest region spans at least 85% of   *)
(* one dimension and at least 25% of the other, or there are more than 50  *)
(* valid regions; otherwise it returns min(100, area_ratio * 1000).        *)
C33_GlobalChange ==
    (seg.pc = "returned" /\ seg.model /\ seg.height * seg.width > 0)
        => LET c == seg.counted
               area == seg.height * seg.width
               band == /\ c.max_rect # NoRect
                       /\ \/ /\ c.max_rect[1] * 100 >= seg.width * 85
                              /\ c.max_rect[2] * 100 >= seg.height * 25
                          \/ /\ c.max_rect[2] * 100 >= seg.height * 85
                              /\ c.max_rect[1] * 100 >= seg.width * 25
               global == \/ c.total_area * 2 > area
                         \/ c.max_area * 10 > area * 4
                         \/ band
                         \/ c.valid_contours > 50
           IN /\ seg.global <=> global
              /\ seg.global => seg.score = 0
              /\ ~seg.global =>
                     /\ seg.score * area = Min(100 * ScoreUnit * area,
                                               c.total_area * 1000 * ScoreUnit)
                     /\ seg.score \in 0..(100 * ScoreUnit)

(* C35: consecutive frame-source failures of a running detector, a failed *)
(* open or a failed read after a successful open, wait 5, 10, 20, 40 and   *)
(* then 60 seconds: the first failure of a loop waits 5 seconds, and a     *)
(* failure that follows a wait of d seconds with no frame read in between  *)
(* waits min(2 * d, 60) seconds.                                           *)
C35_ExponentialBackoff ==
    [][\A t \in Tasks :
          (dloop.pc[t] \in {"loop", "backoff", "connected_sent"}
              /\ dloop'.pc[t] = "reconnect_sent")
          => dloop'.retry_delay[t] =
                 IF dloop.pc[t] = "loop" THEN 5
                 ELSE IF dloop.pc[t] = "backoff" THEN Min(2 * dloop.retry_delay[t], 60)
                 ELSE dloop.retry_delay[t]]_vars

(* C36: when stop() has been called while a start() was loading the        *)
(* classifier model, then once both calls have returned the detector is    *)
(* not running: _running is false and no detection loop task exists.       *)
C36_StopDuringLoad ==
    (dcall.raced /\ DCallersIdle)
        => (~det.running /\ \A t \in Tasks : dloop.pc[t] \in {"none", "done"})

(* C37: the importance of an event is never 3, so an event is important   *)
(* enough for a notification only if a person was detected: a notification *)
(* is dispatched only for an event with a person, never for an animal, a   *)
(* vehicle or motion alone, and never while the classifier model is        *)
(* unavailable.                                                            *)
C37_PersonOnly ==
    /\ out.latest.importance # 3
    /\ out.latest.important => out.latest.person
    /\ out.latest.notified => out.latest.person
    /\ (det.net # "ok" /\ out.latest.confirmed)
           => (~out.latest.person /\ ~out.latest.notified)

(* An event with an animal and no person has been handled while            *)
(* notifications were enabled and no cooldown was running.                 *)
C37_AnimalHandled ==
    /\ \E t \in Tasks : dloop.pc[t] = "frame_sleep"
    /\ out.latest.confirmed /\ out.latest.animal /\ ~out.latest.person
    /\ out.latest.enabled /\ out.latest.due /\ ~out.latest.notified

(* C38: the cooldown timestamp changes only in a step that dispatches a    *)
(* notification: an event handled without a dispatch leaves it as it was.  *)
(* The timestamp is kept as its age, which grows as time passes.           *)
C38_TimestampOnDispatch ==
    [][(/\ det'.last_detection_age # det.last_detection_age
        /\ ~(det.last_detection_age # NoTime
               /\ det'.last_detection_age > det.last_detection_age))
          => (out'.latest.notified /\ det'.last_detection_age = 0)]_vars

(* An event of motion alone has been handled while notifications were      *)
(* enabled, and no timestamp has been recorded.                            *)
C38_MotionOnlyHandled ==
    /\ \E t \in Tasks : dloop.pc[t] = "frame_sleep"
    /\ out.latest.confirmed /\ ~out.latest.found /\ out.latest.enabled
    /\ ~out.latest.notified /\ det.last_detection_age = NoTime

(* C39: a supervisor publishes its status events in lifecycle order.  When *)
(* a monitor loop publishes 'connected', the 'running' event of the        *)
(* start() that created it has been published; and an event of a monitor   *)
(* loop ('connected', 'error', 'reconnecting') is published only by the    *)
(* loop of the current run of a running supervisor, with no cancel()       *)
(* pending: a run that a stop() has ended publishes nothing further, so    *)
(* nothing of it follows the 'stopped' event.                              *)
C39_LifecycleOrder ==
    [][(/\ published' # published
        /\ published'.status \in {"connected", "error", "reconnecting"})
          => /\ hist.runningSince >= 1
             /\ running /\ task # 0 /\ task \notin Cancelling
             /\ tpc'[task] # tpc[task]]_vars

(* A stop() has ended a run and has returned, and 'stopped' is the latest  *)
(* event.                                                                  *)
C39_RunStopped ==
    /\ published.status = "stopped" /\ ~running
    /\ task # 0 /\ tpc[task] = "done"
    /\ process = "None" /\ orphans = 0
    /\ \A c \in Callers : cpc[c] = "idle"

=============================================================================
